---- MODULE Spec2Model ----
(***************************************************************************)
(* Subscription lifecycle of vale-o-vinho-backend: the Stripe webhook      *)
(* handlers of server/routers/subscription.ts writing the `subscriptions`  *)
(* and `payment_history` tables, and the entitlement query of              *)
(* server/middleware/subscription.ts reading them.                         *)
(*                                                                         *)
(* Time is counted in whole seconds (the unit of Stripe's timestamps and   *)
(* of MySQL's NOW()).  A row's `id` (AUTO_INCREMENT) is its index in the   *)
(* table's sequence.  DECIMAL(10,2) amounts are kept in hundredths.        *)
(***************************************************************************)
EXTENDS Integers, Sequences, FiniteSets

VARIABLES
    subscriptions,      \* table `subscriptions`: sequence of rows, id = index
    payment_history,    \* table `payment_history`: sequence of rows, id = index
    now,                \* the wall clock, in seconds
    last,               \* the most recent call and what it returned
    unacked,            \* events the provider still has to redeliver
    inflight            \* webhook calls running concurrently, statement by
                        \* statement

vars == <<subscriptions, payment_history, now, last, unacked, inflight>>

----------------------------------------------------------------------------
(* Bounds of the model. *)

MaxTime == 1            \* the clock runs 0..MaxTime
MaxSubs == 2            \* rows the subscriptions table may hold
MaxPayments == 2        \* rows the payment_history table may hold

(* SQL NULL / a JavaScript null or undefined, for timestamps; an absent    *)
(* string is "".                                                          *)
NULL == -1

----------------------------------------------------------------------------
(* The input domains. *)

Users == {"u1", "u2"}
SubRefs == {"S1", "S2"}
PayRefs == {"P1", "P2"}

(* The Stripe objects behind the references: a subscription belongs to the *)
(* user and customer of its checkout session, a payment intent to the      *)
(* subscription of its invoice.                                            *)
SessionUser == [S1 |-> "u1", S2 |-> "u2"]
SessionCustomer == [S1 |-> "cus1", S2 |-> "cus2"]
InvoiceSubscription == [P1 |-> "S1", P2 |-> "S2"]

(* What stripe.subscriptions.retrieve answers for a subscription: S1 is   *)
(* in its trial, S2 was paid at once.                                      *)
RetrievedSubscription ==
    [S1 |-> [status |-> "trialing", current_period_start |-> 0,
             current_period_end |-> 1, trial_end |-> 1],
     S2 |-> [status |-> "active", current_period_start |-> 1,
             current_period_end |-> 3, trial_end |-> NULL]]

(* The snapshots a customer.subscription.updated event may carry; the      *)
(* second is a payload that does not carry the period fields.              *)
UpdatedSnapshots ==
    { [status |-> "active", current_period_start |-> 1,
       current_period_end |-> 3, cancel_at_period_end |-> FALSE],
      [status |-> "active", current_period_start |-> NULL,
       current_period_end |-> NULL, cancel_at_period_end |-> FALSE] }

(* The subscriptions whose whole lifecycle the provider reports; the other *)
(* ones only check out and pay.                                            *)
LifecycleRefs == {"S1"}

(* checkout.session.completed: the session; metadata.userId may be absent. *)
CheckoutEvents ==
    { [type |-> "checkout.session.completed", subscription |-> s,
       customer |-> SessionCustomer[s], userId |-> SessionUser[s]] :
         s \in SubRefs }
    \cup
    { [type |-> "checkout.session.completed", subscription |-> "S1",
       customer |-> SessionCustomer["S1"], userId |-> ""] }

(* customer.subscription.updated: the subscription's current snapshot. *)
UpdatedEvents ==
    { [type |-> "customer.subscription.updated", id |-> s,
       status |-> u.status,
       current_period_start |-> u.current_period_start,
       current_period_end |-> u.current_period_end,
       cancel_at_period_end |-> u.cancel_at_period_end] :
         s \in LifecycleRefs, u \in UpdatedSnapshots }

(* customer.subscription.deleted *)
DeletedEvents ==
    { [type |-> "customer.subscription.deleted", id |-> s] :
         s \in LifecycleRefs }

(* invoice.payment_succeeded; paid_at 0 stands for an invoice without      *)
(* status_transitions.paid_at.                                             *)
PaymentSucceededEvents ==
    { [type |-> "invoice.payment_succeeded", id |-> p,
       subscription |-> InvoiceSubscription[p], payment_intent |-> p,
       amount_paid |-> 1990, currency |-> "brl",
       payment_method_type |-> "", paid_at |-> 1] : p \in PayRefs }

(* invoice.payment_failed *)
PaymentFailedEvents ==
    { [type |-> "invoice.payment_failed", id |-> s, subscription |-> s] :
         s \in LifecycleRefs }

(* An event type the switch has no case for. *)
OtherEvents == { [type |-> "customer.created", id |-> "S1"] }

Events ==
    CheckoutEvents \cup UpdatedEvents \cup DeletedEvents
      \cup PaymentSucceededEvents \cup PaymentFailedEvents \cup OtherEvents

(* Which call of a handler throws: none, the Stripe API call, or the k-th  *)
(* database query; per event type, the calls its handler makes.            *)
FaultsOf(type) ==
    CASE type = "checkout.session.completed" -> {"none", "stripe", "db1"}
      [] type = "invoice.payment_succeeded" -> {"none", "db1", "db2"}
      [] type = "customer.created" -> {"none"}
      [] OTHER -> {"none", "db1"}

NoEvent == [type |-> "none"]

NoCall == [op |-> "none"]

(* No webhook calls are running concurrently. *)
Idle == [calls |-> <<>>,
         start |-> [subscriptions |-> <<>>, payment_history |-> <<>>,
                    now |-> 0],
         steps |-> <<>>]

----------------------------------------------------------------------------
(* SQL and JavaScript helpers. *)

(* FROM_UNIXTIME(?): seconds since the epoch to a TIMESTAMP; NULL stays NULL. *)
FROM_UNIXTIME(t) == IF t = NULL THEN NULL ELSE t

(* JavaScript truthiness of a number-or-null: null, undefined and 0 are falsy. *)
Truthy(t) == t # NULL /\ t # 0

(* String.prototype.toUpperCase on the currency codes that occur. *)
toUpperCase(c) == IF c = "brl" THEN "BRL" ELSE IF c = "usd" THEN "USD" ELSE c

(* The ids of the rows WHERE stripe_subscription_id = ref. *)
RowsOfSubscription(subs, ref) ==
    { i \in 1..Len(subs) : subs[i].stripe_subscription_id = ref }

(* What a handler leaves behind: the two tables and the error its          *)
(* try/catch caught and logged ("none", "stripe" or "db").                 *)
Outcome(subs, pays, caught) ==
    [subscriptions |-> subs, payment_history |-> pays, caught |-> caught]

----------------------------------------------------------------------------
(* The event handlers.  Each is the set of outcomes the handler may leave, *)
(* given the tables before it ran, the time it ran at (NOW(), Date.now())  *)
(* and the call that throws (fault).                                       *)

(* Mutant of handleCheckoutCompleted: the subscription is not retrieved    *)
(* and the row is inserted as 'incomplete', without its period.            *)
handleCheckoutCompleted_incomplete(session, fault, at, subs, pays) ==
    IF session.userId = "" \/ session.subscription = ""
    THEN { Outcome(subs, pays, "none") }
    ELSE IF fault = "stripe"
    THEN { Outcome(subs, pays, "stripe") }
    ELSE IF fault = "db1"
    THEN { Outcome(subs, pays, "db") }
    ELSE { Outcome(
             Append(subs,
               [user_id |-> session.userId,
                plan_id |-> 1,
                stripe_customer_id |-> session.customer,
                stripe_subscription_id |-> session.subscription,
                status |-> "incomplete",
                current_period_start |-> NULL,
                current_period_end |-> NULL,
                cancel_at_period_end |-> FALSE,
                trial_end |-> NULL,
                created_at |-> at,
                updated_at |-> at]),
             pays, "none") }

(* handleCheckoutCompleted: INSERT INTO subscriptions, whatever is there. *)
handleCheckoutCompleted(session, fault, at, subs, pays) ==
    IF session.userId = "" \/ session.subscription = ""
    THEN { Outcome(subs, pays, "none") }
    ELSE IF fault = "stripe"
    THEN { Outcome(subs, pays, "stripe") }
    ELSE IF fault = "db1"
    THEN { Outcome(subs, pays, "db") }
    ELSE { Outcome(
             Append(subs,
               [user_id |-> session.userId,
                plan_id |-> 1,
                stripe_customer_id |-> session.customer,
                stripe_subscription_id |-> session.subscription,
                status |-> subscription.status,
                current_period_start |->
                    FROM_UNIXTIME(subscription.current_period_start),
                current_period_end |->
                    FROM_UNIXTIME(subscription.current_period_end),
                cancel_at_period_end |-> FALSE,
                trial_end |-> IF Truthy(subscription.trial_end)
                              THEN subscription.trial_end ELSE NULL,
                created_at |-> at,
                updated_at |-> at]),
             pays, "none") :
           subscription \in {RetrievedSubscription[session.subscription]} }

(* Mutant of handleSubscriptionUpdated: an upsert, which inserts the row    *)
(* when the UPDATE would match none.                                       *)
handleSubscriptionUpdated_upserts(subscription, fault, at, subs, pays) ==
    IF fault = "db1"
    THEN { Outcome(subs, pays, "db") }
    ELSE IF RowsOfSubscription(subs, subscription.id) = {}
    THEN { Outcome(
             Append(subs,
               [user_id |-> SessionUser[subscription.id],
                plan_id |-> 1,
                stripe_customer_id |-> SessionCustomer[subscription.id],
                stripe_subscription_id |-> subscription.id,
                status |-> subscription.status,
                current_period_start |->
                    FROM_UNIXTIME(subscription.current_period_start),
                current_period_end |->
                    FROM_UNIXTIME(subscription.current_period_end),
                cancel_at_period_end |-> subscription.cancel_at_period_end,
                trial_end |-> NULL,
                created_at |-> at,
                updated_at |-> at]),
             pays, "none") }
    ELSE { Outcome(
             [i \in 1..Len(subs) |->
                IF subs[i].stripe_subscription_id = subscription.id
                THEN [subs[i] EXCEPT
                        !.status = subscription.status,
                        !.current_period_start =
                            FROM_UNIXTIME(subscription.current_period_start),
                        !.current_period_end =
                            FROM_UNIXTIME(subscription.current_period_end),
                        !.cancel_at_period_end =
                            subscription.cancel_at_period_end,
                        !.updated_at = at]
                ELSE subs[i]],
             pays, "none") }

(* Mutant of handleSubscriptionUpdated: cancel_at_period_end is left as    *)
(* the commands wrote it.                                                  *)
handleSubscriptionUpdated_keepsCancelFlag(subscription, fault, at, subs, pays) ==
    IF fault = "db1"
    THEN { Outcome(subs, pays, "db") }
    ELSE { Outcome(
             [i \in 1..Len(subs) |->
                IF subs[i].stripe_subscription_id = subscription.id
                THEN [subs[i] EXCEPT
                        !.status = subscription.status,
                        !.current_period_start =
                            FROM_UNIXTIME(subscription.current_period_start),
                        !.current_period_end =
                            FROM_UNIXTIME(subscription.current_period_end),
                        !.updated_at = at]
                ELSE subs[i]],
             pays, "none") }

(* handleSubscriptionUpdated: UPDATE ... WHERE stripe_subscription_id = ? *)
handleSubscriptionUpdated(subscription, fault, at, subs, pays) ==
    IF fault = "db1"
    THEN { Outcome(subs, pays, "db") }
    ELSE { Outcome(
             [i \in 1..Len(subs) |->
                IF subs[i].stripe_subscription_id = subscription.id
                THEN [subs[i] EXCEPT
                        !.status = subscription.status,
                        !.current_period_start =
                            FROM_UNIXTIME(subscription.current_period_start),
                        !.current_period_end =
                            FROM_UNIXTIME(subscription.current_period_end),
                        !.cancel_at_period_end =
                            subscription.cancel_at_period_end,
                        !.updated_at = at]
                ELSE subs[i]],
             pays, "none") }

(* Mutant of handleSubscriptionCanceled: the cancellation also clears the  *)
(* row's stripe_subscription_id.                                           *)
handleSubscriptionCanceled_clearsRef(subscription, fault, at, subs, pays) ==
    IF fault = "db1"
    THEN { Outcome(subs, pays, "db") }
    ELSE { Outcome(
             [i \in 1..Len(subs) |->
                IF subs[i].stripe_subscription_id = subscription.id
                THEN [subs[i] EXCEPT !.status = "canceled",
                                     !.stripe_subscription_id = "",
                                     !.updated_at = at]
                ELSE subs[i]],
             pays, "none") }

(* Mutant of handleSubscriptionCanceled: DELETE FROM subscriptions WHERE   *)
(* stripe_subscription_id = ?                                              *)
handleSubscriptionCanceled_deletes(subscription, fault, at, subs, pays) ==
    IF fault = "db1"
    THEN { Outcome(subs, pays, "db") }
    ELSE { Outcome(
             SelectSeq(subs,
               LAMBDA row : row.stripe_subscription_id # subscription.id),
             pays, "none") }

(* Mutant of handleSubscriptionCanceled: a cancellation that matches no    *)
(* row leaves a canceled row behind for the subscription.                  *)
handleSubscriptionCanceled_tombstones(subscription, fault, at, subs, pays) ==
    IF fault = "db1"
    THEN { Outcome(subs, pays, "db") }
    ELSE IF RowsOfSubscription(subs, subscription.id) = {}
    THEN { Outcome(
             Append(subs,
               [user_id |-> SessionUser[subscription.id],
                plan_id |-> 1,
                stripe_customer_id |-> SessionCustomer[subscription.id],
                stripe_subscription_id |-> subscription.id,
                status |-> "canceled",
                current_period_start |-> NULL,
                current_period_end |-> NULL,
                cancel_at_period_end |-> FALSE,
                trial_end |-> NULL,
                created_at |-> at,
                updated_at |-> at]),
             pays, "none") }
    ELSE { Outcome(
             [i \in 1..Len(subs) |->
                IF subs[i].stripe_subscription_id = subscription.id
                THEN [subs[i] EXCEPT !.status = "canceled",
                                     !.updated_at = at]
                ELSE subs[i]],
             pays, "none") }

(* handleSubscriptionCanceled: SET status = 'canceled', updated_at = NOW() *)
handleSubscriptionCanceled(subscription, fault, at, subs, pays) ==
    IF fault = "db1"
    THEN { Outcome(subs, pays, "db") }
    ELSE { Outcome(
             [i \in 1..Len(subs) |->
                IF subs[i].stripe_subscription_id = subscription.id
                THEN [subs[i] EXCEPT !.status = "canceled",
                                     !.updated_at = at]
                ELSE subs[i]],
             pays, "none") }

(* Mutant of handlePaymentSucceeded: the owning row is set back to active  *)
(* with the INSERT.                                                        *)
handlePaymentSucceeded_reactivates(invoice, fault, at, subs, pays) ==
    IF fault = "db1"
    THEN { Outcome(subs, pays, "db") }
    ELSE IF RowsOfSubscription(subs, invoice.subscription) = {}
    THEN { Outcome(subs, pays, "none") }
    ELSE IF fault = "db2"
    THEN { Outcome(subs, pays, "db") }
    ELSE { Outcome(
             [i \in 1..Len(subs) |->
                IF subs[i].stripe_subscription_id = invoice.subscription
                THEN [subs[i] EXCEPT !.status = "active", !.updated_at = at]
                ELSE subs[i]],
             Append(pays,
               [subscription_id |-> subscriptionId,
                stripe_payment_intent_id |-> invoice.payment_intent,
                amount |-> IF Truthy(invoice.amount_paid)
                           THEN invoice.amount_paid ELSE 0,
                currency |-> IF toUpperCase(invoice.currency) = "" THEN "BRL"
                             ELSE toUpperCase(invoice.currency),
                status |-> "succeeded",
                payment_method |-> IF invoice.payment_method_type = ""
                                   THEN "card"
                                   ELSE invoice.payment_method_type,
                paid_at |-> FROM_UNIXTIME(IF Truthy(invoice.paid_at)
                                          THEN invoice.paid_at ELSE at)]),
             "none") :
           subscriptionId \in RowsOfSubscription(subs, invoice.subscription) }

(* Mutant of handlePaymentSucceeded: a statement follows the INSERT, and   *)
(* the second failure (db2) is this statement's, after the row went in.    *)
handlePaymentSucceeded_partial(invoice, fault, at, subs, pays) ==
    IF fault = "db1"
    THEN { Outcome(subs, pays, "db") }
    ELSE IF RowsOfSubscription(subs, invoice.subscription) = {}
    THEN { Outcome(subs, pays, "none") }
    ELSE { Outcome(subs,
             Append(pays,
               [subscription_id |-> subscriptionId,
                stripe_payment_intent_id |-> invoice.payment_intent,
                amount |-> IF Truthy(invoice.amount_paid)
                           THEN invoice.amount_paid ELSE 0,
                currency |-> IF toUpperCase(invoice.currency) = "" THEN "BRL"
                             ELSE toUpperCase(invoice.currency),
                status |-> "succeeded",
                payment_method |-> IF invoice.payment_method_type = ""
                                   THEN "card"
                                   ELSE invoice.payment_method_type,
                paid_at |-> FROM_UNIXTIME(IF Truthy(invoice.paid_at)
                                          THEN invoice.paid_at ELSE at)]),
             IF fault = "db2" THEN "db" ELSE "none") :
           subscriptionId \in RowsOfSubscription(subs, invoice.subscription) }

(* Mutant of handlePaymentSucceeded: the lookup's empty result is not      *)
(* checked and the payment is inserted with no owning row.                 *)
handlePaymentSucceeded_unchecked(invoice, fault, at, subs, pays) ==
    IF fault = "db1"
    THEN { Outcome(subs, pays, "db") }
    ELSE IF fault = "db2"
    THEN { Outcome(subs, pays, "db") }
    ELSE { Outcome(subs,
             Append(pays,
               [subscription_id |-> subscriptionId,
                stripe_payment_intent_id |-> invoice.payment_intent,
                amount |-> IF Truthy(invoice.amount_paid)
                           THEN invoice.amount_paid ELSE 0,
                currency |-> IF toUpperCase(invoice.currency) = "" THEN "BRL"
                             ELSE toUpperCase(invoice.currency),
                status |-> "succeeded",
                payment_method |-> IF invoice.payment_method_type = ""
                                   THEN "card"
                                   ELSE invoice.payment_method_type,
                paid_at |-> FROM_UNIXTIME(IF Truthy(invoice.paid_at)
                                          THEN invoice.paid_at ELSE at)]),
             "none") :
           subscriptionId \in
             IF RowsOfSubscription(subs, invoice.subscription) = {}
             THEN {0}
             ELSE RowsOfSubscription(subs, invoice.subscription) }

(* handlePaymentSucceeded: SELECT the owning row's id (LIMIT 1, no ORDER   *)
(* BY: any matching row), then INSERT INTO payment_history.                *)
handlePaymentSucceeded(invoice, fault, at, subs, pays) ==
    IF fault = "db1"
    THEN { Outcome(subs, pays, "db") }
    ELSE IF RowsOfSubscription(subs, invoice.subscription) = {}
    THEN { Outcome(subs, pays, "none") }
    ELSE IF fault = "db2"
    THEN { Outcome(subs, pays, "db") }
    ELSE { Outcome(subs,
             Append(pays,
               [subscription_id |-> subscriptionId,
                stripe_payment_intent_id |-> invoice.payment_intent,
                amount |-> IF Truthy(invoice.amount_paid)
                           THEN invoice.amount_paid ELSE 0,
                currency |-> IF toUpperCase(invoice.currency) = "" THEN "BRL"
                             ELSE toUpperCase(invoice.currency),
                status |-> "succeeded",
                payment_method |-> IF invoice.payment_method_type = ""
                                   THEN "card"
                                   ELSE invoice.payment_method_type,
                paid_at |-> FROM_UNIXTIME(IF Truthy(invoice.paid_at)
                                          THEN invoice.paid_at ELSE at)]),
             "none") :
           subscriptionId \in RowsOfSubscription(subs, invoice.subscription) }

(* Mutant of handlePaymentFailed: the payments of the subscription are     *)
(* marked failed as well.                                                  *)
handlePaymentFailed_voidsPayments(invoice, fault, at, subs, pays) ==
    IF fault = "db1"
    THEN { Outcome(subs, pays, "db") }
    ELSE { Outcome(
             [i \in 1..Len(subs) |->
                IF subs[i].stripe_subscription_id = invoice.subscription
                THEN [subs[i] EXCEPT !.status = "past_due",
                                     !.updated_at = at]
                ELSE subs[i]],
             [k \in 1..Len(pays) |->
                IF pays[k].subscription_id
                     \in RowsOfSubscription(subs, invoice.subscription)
                THEN [pays[k] EXCEPT !.status = "failed"]
                ELSE pays[k]],
             "none") }

(* Mutant of handlePaymentFailed: the failure is also entered in           *)
(* payment_history, once per delivery.                                     *)
handlePaymentFailed_recorded(invoice, fault, at, subs, pays) ==
    IF fault = "db1"
    THEN { Outcome(subs, pays, "db") }
    ELSE { Outcome(
             [i \in 1..Len(subs) |->
                IF subs[i].stripe_subscription_id = invoice.subscription
                THEN [subs[i] EXCEPT !.status = "past_due",
                                     !.updated_at = at]
                ELSE subs[i]],
             IF RowsOfSubscription(subs, invoice.subscription) = {}
             THEN pays
             ELSE Append(pays,
                    [subscription_id |-> subscriptionId,
                     stripe_payment_intent_id |-> invoice.id,
                     amount |-> 0, currency |-> "BRL", status |-> "failed",
                     payment_method |-> "card", paid_at |-> NULL]),
             "none") :
           subscriptionId \in
             IF RowsOfSubscription(subs, invoice.subscription) = {}
             THEN {0}
             ELSE RowsOfSubscription(subs, invoice.subscription) }

(* handlePaymentFailed: SET status = 'past_due', updated_at = NOW() *)
handlePaymentFailed(invoice, fault, at, subs, pays) ==
    IF fault = "db1"
    THEN { Outcome(subs, pays, "db") }
    ELSE { Outcome(
             [i \in 1..Len(subs) |->
                IF subs[i].stripe_subscription_id = invoice.subscription
                THEN [subs[i] EXCEPT !.status = "past_due",
                                     !.updated_at = at]
                ELSE subs[i]],
             pays, "none") }

(* The switch of handleStripeWebhook: the handler an event type goes to. *)
HandlerOf(type) ==
    CASE type = "checkout.session.completed" -> "handleCheckoutCompleted"
      [] type = "customer.subscription.updated" -> "handleSubscriptionUpdated"
      [] type = "customer.subscription.deleted" -> "handleSubscriptionCanceled"
      [] type = "invoice.payment_succeeded" -> "handlePaymentSucceeded"
      [] type = "invoice.payment_failed" -> "handlePaymentFailed"
      [] OTHER -> "none"

(* Mutant of Dispatch: the default case falls into the cancellation. *)
Dispatch_defaultCancels(event, fault, at, subs, pays) ==
    CASE HandlerOf(event.type) = "handleCheckoutCompleted" ->
           handleCheckoutCompleted(event, fault, at, subs, pays)
      [] HandlerOf(event.type) = "handleSubscriptionUpdated" ->
           handleSubscriptionUpdated(event, fault, at, subs, pays)
      [] HandlerOf(event.type) = "handlePaymentSucceeded" ->
           handlePaymentSucceeded(event, fault, at, subs, pays)
      [] HandlerOf(event.type) = "handlePaymentFailed" ->
           handlePaymentFailed(event, fault, at, subs, pays)
      [] OTHER -> handleSubscriptionCanceled(event, fault, at, subs, pays)

(* The switch statement: each case awaits its handler. *)
Dispatch(event, fault, at, subs, pays) ==
    CASE HandlerOf(event.type) = "handleCheckoutCompleted" ->
           handleCheckoutCompleted(event, fault, at, subs, pays)
      [] HandlerOf(event.type) = "handleSubscriptionUpdated" ->
           handleSubscriptionUpdated(event, fault, at, subs, pays)
      [] HandlerOf(event.type) = "handleSubscriptionCanceled" ->
           handleSubscriptionCanceled(event, fault, at, subs, pays)
      [] HandlerOf(event.type) = "handlePaymentSucceeded" ->
           handlePaymentSucceeded(event, fault, at, subs, pays)
      [] HandlerOf(event.type) = "handlePaymentFailed" ->
           handlePaymentFailed(event, fault, at, subs, pays)
      [] OTHER -> { Outcome(subs, pays, "none") }

(* The tables stay within the model's bounds. *)
WithinBounds(o) ==
    /\ Len(o.subscriptions) <= MaxSubs
    /\ Len(o.payment_history) <= MaxPayments

(* The subscription an event is about (session.subscription,               *)
(* subscription.id, invoice.subscription).                                 *)
EventRef(event) ==
    CASE event.type \in {"checkout.session.completed",
                         "invoice.payment_succeeded",
                         "invoice.payment_failed"} -> event.subscription
      [] event.type \in {"customer.subscription.updated",
                         "customer.subscription.deleted"} -> event.id
      [] OTHER -> ""

(* Mutant of handleStripeWebhook: the event is parsed and dispatched       *)
(* before the signature is looked at.                                      *)
handleStripeWebhook_dispatchesFirst(event, signatureOk, fault) ==
    \E o \in Dispatch(event, fault, now, subscriptions, payment_history) :
      /\ WithinBounds(o)
      /\ subscriptions' = o.subscriptions
      /\ payment_history' = o.payment_history
      /\ last' = IF signatureOk
                 THEN [op |-> "handleStripeWebhook", signatureOk |-> TRUE,
                       type |-> event.type, ref |-> EventRef(event),
                       handler |-> HandlerOf(event.type),
                       caught |-> o.caught,
                       failed |-> IF o.caught = "db" THEN event ELSE NoEvent,
                       returned |-> "received"]
                 ELSE [op |-> "handleStripeWebhook", signatureOk |-> FALSE,
                       type |-> "", ref |-> "", handler |-> "none",
                       caught |-> "none", failed |-> NoEvent,
                       returned |-> "threw"]
      /\ unacked' = IF last'.returned = "received"
                    THEN unacked \ {event}
                    ELSE unacked
      /\ UNCHANGED <<now, inflight>>

(* handleStripeWebhook(body, signature, db): constructEvent throws on a    *)
(* bad signature and the function rethrows; otherwise the event goes to    *)
(* its handler and the function returns {received: true}.  `last` keeps    *)
(* what the call was given and what it did.  The provider takes an event   *)
(* it delivered as acknowledged when the call returns and keeps it for     *)
(* redelivery otherwise; a request whose signature does not verify is not  *)
(* one of its deliveries.                                                  *)
handleStripeWebhook(event, signatureOk, fault) ==
    IF ~signatureOk
    THEN /\ last' = [op |-> "handleStripeWebhook", signatureOk |-> FALSE,
                     type |-> "", ref |-> "", handler |-> "none",
                     caught |-> "none", failed |-> NoEvent,
                     returned |-> "threw"]
         /\ UNCHANGED <<subscriptions, payment_history, now, unacked, inflight>>
    ELSE \E o \in Dispatch(event, fault, now, subscriptions, payment_history) :
           /\ WithinBounds(o)
           /\ subscriptions' = o.subscriptions
           /\ payment_history' = o.payment_history
           /\ last' = [op |-> "handleStripeWebhook", signatureOk |-> TRUE,
                       type |-> event.type, ref |-> EventRef(event),
                       handler |-> HandlerOf(event.type),
                       caught |-> o.caught,
                       failed |-> IF o.caught = "db" THEN event ELSE NoEvent,
                       returned |-> "received"]
           /\ unacked' = IF last'.returned = "received"
                         THEN unacked \ {event}
                         ELSE unacked \cup {event}
           /\ UNCHANGED <<now, inflight>>

----------------------------------------------------------------------------
(* The entitlement query. *)

(* The rows ORDER BY created_at DESC LIMIT 1 may return for a user: a row  *)
(* of the user no other row of the user was created after (rows created    *)
(* in the same second tie, and MySQL may return either).                   *)
LatestRows(subs, userId) ==
    { i \in 1..Len(subs) :
        /\ subs[i].user_id = userId
        /\ \A j \in 1..Len(subs) :
             subs[j].user_id = userId => subs[j].created_at <= subs[i].created_at }

(* Mutant of IsEntitled: past_due counts as an active status. *)
IsEntitled_gracePeriod(sub, at) ==
    LET isActiveStatus == sub.status \in {"active", "trialing", "past_due"}
        isNotExpired == sub.current_period_end # NULL
                          /\ sub.current_period_end > at
    IN  isActiveStatus /\ isNotExpired

(* Mutant of IsEntitled: the expiry of the period is not checked. *)
IsEntitled_ignoresExpiry(sub, at) ==
    sub.status \in {"active", "trialing"}

(* Lines 33-41 on the row the query returned; `at` is new Date(). *)
IsEntitled(sub, at) ==
    LET isActiveStatus == sub.status \in {"active", "trialing"}
        isNotExpired == sub.current_period_end # NULL
                          /\ sub.current_period_end > at
    IN  isActiveStatus /\ isNotExpired

(* Mutant of hasActiveSubscription: a failed query counts as access. *)
hasActiveSubscription_failsOpen(subs, userId, at, fault) ==
    IF fault = "db1"
    THEN { TRUE }
    ELSE IF LatestRows(subs, userId) = {}
    THEN { FALSE }
    ELSE { IsEntitled(subs[i], at) : i \in LatestRows(subs, userId) }

(* hasActiveSubscription(db, userId): the values it may return. *)
hasActiveSubscription(subs, userId, at, fault) ==
    IF fault = "db1"
    THEN { FALSE }
    ELSE IF LatestRows(subs, userId) = {}
    THEN { FALSE }
    ELSE { IsEntitled(subs[i], at) : i \in LatestRows(subs, userId) }

HasActiveSubscriptionCall(userId, fault) ==
    /\ \E r \in hasActiveSubscription(subscriptions, userId, now, fault) :
         last' = [op |-> "hasActiveSubscription", userId |-> userId,
                  at |-> now,
                  caught |-> IF fault = "db1" THEN "db" ELSE "none",
                  returned |-> r]
    /\ UNCHANGED <<subscriptions, payment_history, now, unacked, inflight>>

----------------------------------------------------------------------------
(* The router's commands.  Each is the set of results the call may have,   *)
(* given the table before it, the time it ran at and the call that throws  *)
(* (fault): "status" is the query of getSubscriptionStatus, "stripe" the   *)
(* Stripe API call, "db1" the UPDATE.                                      *)

(* Who calls the router: the user whose subscription's lifecycle is        *)
(* followed, or nobody ("" is the falsy userId requireAuth rejects).       *)
Callers == { SessionUser[s] : s \in LifecycleRefs } \cup {""}

(* Which call of a command throws, per command the calls it makes. *)
CommandFaultsOf(op, userId) ==
    IF userId = "" THEN {"none"}
    ELSE CASE op = "createCheckout" -> {"none", "stripe"}
           [] op = "createPortal" -> {"none", "status", "stripe"}
           [] OTHER -> {"none", "status", "stripe", "db1"}

(* requireAuth: throws UNAUTHORIZED on a falsy userId. *)
requireAuth(userId) == userId # ""

(* What a command leaves behind: the table, what the caller got (a value   *)
(* returned or the code of the TRPCError thrown), whether the Stripe API   *)
(* was called, and the subscription the command addressed.                 *)
CommandOutcome(subs, returned, providerCall, ref) ==
    [subscriptions |-> subs, returned |-> returned,
     providerCall |-> providerCall, ref |-> ref]

(* getSubscriptionStatus(db, userId): the objects it may return; of the    *)
(* fields, the ones the router reads, the period end and the entitlement.  *)
(* Its own query may throw ("status"), and so may the query of the         *)
(* hasActiveSubscription it calls ("access").                              *)
getSubscriptionStatus(subs, userId, at, fault) ==
    IF fault = "status"
    THEN { [status |-> "error", hasAccess |-> FALSE,
            currentPeriodEnd |-> NULL,
            stripeCustomerId |-> "", stripeSubscriptionId |-> ""] }
    ELSE IF LatestRows(subs, userId) = {}
    THEN { [status |-> "none", hasAccess |-> FALSE,
            currentPeriodEnd |-> NULL,
            stripeCustomerId |-> "", stripeSubscriptionId |-> ""] }
    ELSE { [status |-> subs[i].status, hasAccess |-> hasAccess,
            currentPeriodEnd |-> subs[i].current_period_end,
            stripeCustomerId |-> subs[i].stripe_customer_id,
            stripeSubscriptionId |-> subs[i].stripe_subscription_id] :
           i \in LatestRows(subs, userId),
           hasAccess \in hasActiveSubscription(subs, userId, at,
                           IF fault = "access" THEN "db1" ELSE "none") }

(* createCheckoutSession: stripe.checkout.sessions.create, nothing else. *)
createCheckoutSession(userId, fault, at, subs) ==
    IF fault = "stripe"
    THEN { CommandOutcome(subs, "INTERNAL_SERVER_ERROR", TRUE, "") }
    ELSE { CommandOutcome(subs, "url", TRUE, "") }

(* createPortalSession: stripe.billingPortal.sessions.create. *)
createPortalSession(stripeCustomerId, fault, at, subs) ==
    IF fault = "stripe"
    THEN { CommandOutcome(subs, "INTERNAL_SERVER_ERROR", TRUE, "") }
    ELSE { CommandOutcome(subs, "url", TRUE, "") }

(* Mutant of SetCancelAtPeriodEnd: the UPDATE does not set updated_at. *)
SetCancelAtPeriodEnd_silent(subs, stripeSubscriptionId, value, at) ==
    [i \in 1..Len(subs) |->
       IF subs[i].stripe_subscription_id = stripeSubscriptionId
       THEN [subs[i] EXCEPT !.cancel_at_period_end = value]
       ELSE subs[i]]

(* The UPDATE of cancelSubscription and reactivateSubscription:            *)
(* SET cancel_at_period_end = ?, updated_at = NOW()                        *)
(* WHERE stripe_subscription_id = ?                                        *)
SetCancelAtPeriodEnd(subs, stripeSubscriptionId, value, at) ==
    [i \in 1..Len(subs) |->
       IF subs[i].stripe_subscription_id = stripeSubscriptionId
       THEN [subs[i] EXCEPT !.cancel_at_period_end = value,
                            !.updated_at = at]
       ELSE subs[i]]

(* Mutant of cancelSubscription: the UPDATE sets status = 'canceled' too. *)
cancelSubscription_setsStatus(stripeSubscriptionId, fault, at, subs) ==
    IF fault = "stripe"
    THEN { CommandOutcome(subs, "INTERNAL_SERVER_ERROR", TRUE,
                          stripeSubscriptionId) }
    ELSE IF fault = "db1"
    THEN { CommandOutcome(subs, "INTERNAL_SERVER_ERROR", TRUE,
                          stripeSubscriptionId) }
    ELSE { CommandOutcome(
             [i \in 1..Len(subs) |->
                IF subs[i].stripe_subscription_id = stripeSubscriptionId
                THEN [subs[i] EXCEPT !.cancel_at_period_end = TRUE,
                                     !.status = "canceled",
                                     !.updated_at = at]
                ELSE subs[i]],
             "success", TRUE, stripeSubscriptionId) }

(* cancelSubscription: the Stripe update, then the UPDATE; either throwing *)
(* is rethrown as INTERNAL_SERVER_ERROR.                                   *)
cancelSubscription(stripeSubscriptionId, fault, at, subs) ==
    IF fault = "stripe"
    THEN { CommandOutcome(subs, "INTERNAL_SERVER_ERROR", TRUE,
                          stripeSubscriptionId) }
    ELSE IF fault = "db1"
    THEN { CommandOutcome(subs, "INTERNAL_SERVER_ERROR", TRUE,
                          stripeSubscriptionId) }
    ELSE { CommandOutcome(
             SetCancelAtPeriodEnd(subs, stripeSubscriptionId, TRUE, at),
             "success", TRUE, stripeSubscriptionId) }

(* Mutant of reactivateSubscription: the UPDATE sets status = 'active'     *)
(* too.                                                                    *)
reactivateSubscription_setsActive(stripeSubscriptionId, fault, at, subs) ==
    IF fault = "stripe"
    THEN { CommandOutcome(subs, "INTERNAL_SERVER_ERROR", TRUE,
                          stripeSubscriptionId) }
    ELSE IF fault = "db1"
    THEN { CommandOutcome(subs, "INTERNAL_SERVER_ERROR", TRUE,
                          stripeSubscriptionId) }
    ELSE { CommandOutcome(
             [i \in 1..Len(subs) |->
                IF subs[i].stripe_subscription_id = stripeSubscriptionId
                THEN [subs[i] EXCEPT !.cancel_at_period_end = FALSE,
                                     !.status = "active",
                                     !.updated_at = at]
                ELSE subs[i]],
             "success", TRUE, stripeSubscriptionId) }

(* reactivateSubscription: the same with cancel_at_period_end = FALSE. *)
reactivateSubscription(stripeSubscriptionId, fault, at, subs) ==
    IF fault = "stripe"
    THEN { CommandOutcome(subs, "INTERNAL_SERVER_ERROR", TRUE,
                          stripeSubscriptionId) }
    ELSE IF fault = "db1"
    THEN { CommandOutcome(subs, "INTERNAL_SERVER_ERROR", TRUE,
                          stripeSubscriptionId) }
    ELSE { CommandOutcome(
             SetCancelAtPeriodEnd(subs, stripeSubscriptionId, FALSE, at),
             "success", TRUE, stripeSubscriptionId) }

(* subscriptionRouter.createCheckout *)
createCheckout(userId, fault, at, subs) ==
    IF ~requireAuth(userId)
    THEN { CommandOutcome(subs, "UNAUTHORIZED", FALSE, "") }
    ELSE createCheckoutSession(userId, fault, at, subs)

(* subscriptionRouter.createPortal *)
createPortal(userId, fault, at, subs) ==
    IF ~requireAuth(userId)
    THEN { CommandOutcome(subs, "UNAUTHORIZED", FALSE, "") }
    ELSE UNION {
           IF status.stripeCustomerId = ""
           THEN { CommandOutcome(subs, "NOT_FOUND", FALSE, "") }
           ELSE createPortalSession(status.stripeCustomerId, fault, at, subs) :
           status \in getSubscriptionStatus(subs, userId, at, fault) }

(* subscriptionRouter.cancel *)
cancel(userId, fault, at, subs) ==
    IF ~requireAuth(userId)
    THEN { CommandOutcome(subs, "UNAUTHORIZED", FALSE, "") }
    ELSE UNION {
           IF status.stripeSubscriptionId = ""
           THEN { CommandOutcome(subs, "NOT_FOUND", FALSE, "") }
           ELSE cancelSubscription(status.stripeSubscriptionId, fault, at, subs) :
           status \in getSubscriptionStatus(subs, userId, at, fault) }

(* subscriptionRouter.reactivate *)
reactivate(userId, fault, at, subs) ==
    IF ~requireAuth(userId)
    THEN { CommandOutcome(subs, "UNAUTHORIZED", FALSE, "") }
    ELSE UNION {
           IF status.stripeSubscriptionId = ""
           THEN { CommandOutcome(subs, "NOT_FOUND", FALSE, "") }
           ELSE reactivateSubscription(status.stripeSubscriptionId, fault,
                                       at, subs) :
           status \in getSubscriptionStatus(subs, userId, at, fault) }

Commands == {"createCheckout", "createPortal", "cancel", "reactivate"}

(* The router procedure of a name. *)
Procedure(op, userId, fault, at, subs) ==
    CASE op = "createCheckout" -> createCheckout(userId, fault, at, subs)
      [] op = "createPortal" -> createPortal(userId, fault, at, subs)
      [] op = "cancel" -> cancel(userId, fault, at, subs)
      [] op = "reactivate" -> reactivate(userId, fault, at, subs)

(* A call of a router procedure. *)
RouterCall(op, userId, fault) ==
    \E o \in Procedure(op, userId, fault, now, subscriptions) :
      /\ subscriptions' = o.subscriptions
      /\ last' = [op |-> op, userId |-> userId,
                  ref |-> o.ref, providerCall |-> o.providerCall,
                  returned |-> o.returned]
      /\ UNCHANGED <<payment_history, now, unacked, inflight>>

----------------------------------------------------------------------------
(* The access gate and the status query. *)

(* What a gate or query call gives its caller: the value returned or the   *)
(* code of the TRPCError thrown, and whether the store was read.           *)
ReadOutcome(returned, view, storeRead) ==
    [returned |-> returned, view |-> view, storeRead |-> storeRead]

NoView == [status |-> "", hasAccess |-> FALSE, currentPeriodEnd |-> NULL,
           stripeCustomerId |-> "", stripeSubscriptionId |-> ""]

(* Mutant of requirePremium: the subscription is looked up before the      *)
(* login is checked.                                                       *)
requirePremium_queriesFirst(subs, userId, at, fault) ==
    { IF ~hasAccess THEN ReadOutcome("FORBIDDEN", NoView, TRUE)
      ELSE IF ~requireAuth(userId)
      THEN ReadOutcome("UNAUTHORIZED", NoView, TRUE)
      ELSE ReadOutcome(userId, NoView, TRUE) :
      hasAccess \in hasActiveSubscription(subs, userId, at, fault) }

(* requirePremium(db, userId): requireAuth, then hasActiveSubscription. *)
requirePremium(subs, userId, at, fault) ==
    IF ~requireAuth(userId)
    THEN { ReadOutcome("UNAUTHORIZED", NoView, FALSE) }
    ELSE { IF ~hasAccess THEN ReadOutcome("FORBIDDEN", NoView, TRUE)
           ELSE ReadOutcome(userId, NoView, TRUE) :
           hasAccess \in hasActiveSubscription(subs, userId, at, fault) }

(* subscriptionRouter.getStatus *)
getStatus(subs, userId, at, fault) ==
    IF ~requireAuth(userId)
    THEN { ReadOutcome("UNAUTHORIZED", NoView, FALSE) }
    ELSE { ReadOutcome("view", view, TRUE) :
           view \in getSubscriptionStatus(subs, userId, at, fault) }

RequirePremiumCall(userId, fault) ==
    /\ \E o \in requirePremium(subscriptions, userId, now, fault) :
         last' = [op |-> "requirePremium", userId |-> userId, at |-> now,
                  caught |-> IF fault = "db1" /\ o.storeRead
                             THEN "db" ELSE "none",
                  storeRead |-> o.storeRead, view |-> o.view,
                  returned |-> o.returned]
    /\ UNCHANGED <<subscriptions, payment_history, now, unacked, inflight>>

GetStatusCall(userId, fault) ==
    /\ \E o \in getStatus(subscriptions, userId, now, fault) :
         last' = [op |-> "getStatus", userId |-> userId, at |-> now,
                  caught |-> IF o.storeRead THEN fault ELSE "none",
                  storeRead |-> o.storeRead, view |-> o.view,
                  returned |-> o.returned]
    /\ UNCHANGED <<subscriptions, payment_history, now, unacked, inflight>>

(* getSubscriptionStatus, query by query: its SELECT of the latest row,    *)
(* then the SELECT of the hasActiveSubscription it awaits.  A webhook may  *)
(* be handled between the two.                                             *)
getSubscriptionStatusStep(call, at, subs) ==
    LET userId == call.event.userId
    IN  IF call.pc = "start"
        THEN IF LatestRows(subs, userId) = {}
             THEN { [call EXCEPT
                       !.pc = "done",
                       !.local = [status |-> "none", hasAccess |-> FALSE,
                                  currentPeriodEnd |-> NULL, at |-> at]] }
             ELSE { [call EXCEPT
                       !.pc = "selected",
                       !.local = [status |-> subs[i].status,
                                  hasAccess |-> FALSE,
                                  currentPeriodEnd |->
                                      subs[i].current_period_end,
                                  at |-> at]] :
                    i \in LatestRows(subs, userId) }
        ELSE { [call EXCEPT !.pc = "done",
                            !.local = [call.local EXCEPT
                                         !.hasAccess = hasAccess,
                                         !.at = at]] :
               hasAccess \in hasActiveSubscription(subs, userId, at, "none") }

(* A caller starts getSubscriptionStatus. *)
BeginStatus(userId) ==
    /\ \/ inflight = Idle
       \/ \A c \in 1..Len(inflight.calls) : inflight.calls[c].pc = "done"
    /\ inflight' =
         [calls |-> <<[event |-> [type |-> "getSubscriptionStatus",
                                  userId |-> userId],
                       pc |-> "start", local |-> [id |-> 0]]>>,
          start |-> Idle.start,
          steps |-> <<>>]
    /\ UNCHANGED <<subscriptions, payment_history, now, last, unacked>>

(* The running getSubscriptionStatus does its next query. *)
StatusStep ==
    /\ Len(inflight.calls) = 1
    /\ inflight.calls[1].pc # "done"
    /\ \E call \in getSubscriptionStatusStep(inflight.calls[1], now,
                                             subscriptions) :
         inflight' = [inflight EXCEPT !.calls[1] = call]
    /\ UNCHANGED <<subscriptions, payment_history, now, last, unacked>>

----------------------------------------------------------------------------
(* The clock. *)
Tick ==
    /\ now < MaxTime
    /\ now' = now + 1
    /\ UNCHANGED <<subscriptions, payment_history, last, unacked, inflight>>

----------------------------------------------------------------------------
Init ==
    /\ subscriptions = <<>>
    /\ payment_history = <<>>
    /\ now = 0
    /\ last = NoCall
    /\ unacked = {}
    /\ inflight = Idle

StripeWebhook ==
    \E event \in Events, signatureOk \in BOOLEAN :
        \E fault \in IF signatureOk THEN FaultsOf(event.type) ELSE {"none"} :
            handleStripeWebhook(event, signatureOk, fault)

EntitlementQuery ==
    \E userId \in Users, fault \in {"none", "db1"} :
        HasActiveSubscriptionCall(userId, fault)

CommandSurface ==
    \E op \in Commands, userId \in Callers :
        \E fault \in CommandFaultsOf(op, userId) :
            RouterCall(op, userId, fault)

Next ==
    \/ StripeWebhook
    \/ EntitlementQuery
    \/ CommandSurface
    \/ Tick

Spec == Init /\ [][Next]_vars

(* The provider redelivers every event it got no acknowledgement for, and  *)
(* storage failures are transient: a redelivery eventually meets a         *)
(* working database.                                                       *)
Redeliver == \E event \in unacked : handleStripeWebhook(event, TRUE, "none")

FairSpec == Spec /\ WF_vars(Redeliver)

----------------------------------------------------------------------------
(* Webhook calls running concurrently.  A handler is a sequence of awaited *)
(* calls; another call may run between two of them.  One statement of SQL  *)
(* is atomic.  A call is the event it handles, its position (pc) and what  *)
(* it holds in its local variables.                                        *)

(* A call after a step, and the tables the step leaves. *)
Stepped(call, subs, pays) ==
    [call |-> call, subscriptions |-> subs, payment_history |-> pays]

(* handleCheckoutCompleted, statement by statement: the guard and         *)
(* stripe.subscriptions.retrieve, then the INSERT.                         *)
CheckoutCompletedStep(call, at, subs, pays) ==
    LET session == call.event
    IN  IF call.pc = "start"
        THEN IF session.userId = "" \/ session.subscription = ""
             THEN { Stepped([call EXCEPT !.pc = "done"], subs, pays) }
             ELSE { Stepped([call EXCEPT
                               !.pc = "retrieved",
                               !.local =
                                 RetrievedSubscription[session.subscription]],
                            subs, pays) }
        ELSE { Stepped([call EXCEPT !.pc = "done"],
                 Append(subs,
                   [user_id |-> session.userId,
                    plan_id |-> 1,
                    stripe_customer_id |-> session.customer,
                    stripe_subscription_id |-> session.subscription,
                    status |-> call.local.status,
                    current_period_start |->
                        FROM_UNIXTIME(call.local.current_period_start),
                    current_period_end |->
                        FROM_UNIXTIME(call.local.current_period_end),
                    cancel_at_period_end |-> FALSE,
                    trial_end |-> IF Truthy(call.local.trial_end)
                                  THEN call.local.trial_end ELSE NULL,
                    created_at |-> at,
                    updated_at |-> at]),
                 pays) }

(* Mutant of PaymentSucceededStep: the SELECT reads the row's status too   *)
(* and the row is written back with it after the INSERT.                   *)
PaymentSucceededStep_writesBack(call, at, subs, pays) ==
    LET invoice == call.event
    IN  IF call.pc = "start"
        THEN IF RowsOfSubscription(subs, invoice.subscription) = {}
             THEN { Stepped([call EXCEPT !.pc = "done"], subs, pays) }
             ELSE { Stepped([call EXCEPT
                               !.pc = "selected",
                               !.local = [id |-> i,
                                          status |-> subs[i].status]],
                            subs, pays) :
                    i \in RowsOfSubscription(subs, invoice.subscription) }
        ELSE { Stepped([call EXCEPT !.pc = "done"],
                 [subs EXCEPT ![call.local.id].status = call.local.status],
                 Append(pays,
                   [subscription_id |-> call.local.id,
                    stripe_payment_intent_id |-> invoice.payment_intent,
                    amount |-> IF Truthy(invoice.amount_paid)
                               THEN invoice.amount_paid ELSE 0,
                    currency |-> IF toUpperCase(invoice.currency) = ""
                                 THEN "BRL"
                                 ELSE toUpperCase(invoice.currency),
                    status |-> "succeeded",
                    payment_method |-> IF invoice.payment_method_type = ""
                                       THEN "card"
                                       ELSE invoice.payment_method_type,
                    paid_at |-> FROM_UNIXTIME(IF Truthy(invoice.paid_at)
                                              THEN invoice.paid_at
                                              ELSE at)])) }

(* handlePaymentSucceeded, statement by statement: the SELECT of the       *)
(* owning row's id, then the INSERT.                                       *)
PaymentSucceededStep(call, at, subs, pays) ==
    LET invoice == call.event
    IN  IF call.pc = "start"
        THEN IF RowsOfSubscription(subs, invoice.subscription) = {}
             THEN { Stepped([call EXCEPT !.pc = "done"], subs, pays) }
             ELSE { Stepped([call EXCEPT !.pc = "selected",
                                         !.local = [id |-> i]],
                            subs, pays) :
                    i \in RowsOfSubscription(subs, invoice.subscription) }
        ELSE { Stepped([call EXCEPT !.pc = "done"],
                 subs,
                 Append(pays,
                   [subscription_id |-> call.local.id,
                    stripe_payment_intent_id |-> invoice.payment_intent,
                    amount |-> IF Truthy(invoice.amount_paid)
                               THEN invoice.amount_paid ELSE 0,
                    currency |-> IF toUpperCase(invoice.currency) = ""
                                 THEN "BRL"
                                 ELSE toUpperCase(invoice.currency),
                    status |-> "succeeded",
                    payment_method |-> IF invoice.payment_method_type = ""
                                       THEN "card"
                                       ELSE invoice.payment_method_type,
                    paid_at |-> FROM_UNIXTIME(IF Truthy(invoice.paid_at)
                                              THEN invoice.paid_at
                                              ELSE at)])) }

(* The handlers that are one statement (and the default case, which is     *)
(* none): the call runs to its end.                                        *)
StatementStep(call, at, subs, pays) ==
    { Stepped([call EXCEPT !.pc = "done"],
              o.subscriptions, o.payment_history) :
      o \in Dispatch(call.event, "none", at, subs, pays) }

(* The next statement of a call. *)
HandlerStep(call, at, subs, pays) ==
    CASE call.event.type = "checkout.session.completed" ->
           CheckoutCompletedStep(call, at, subs, pays)
      [] call.event.type = "invoice.payment_succeeded" ->
           PaymentSucceededStep(call, at, subs, pays)
      [] OTHER -> StatementStep(call, at, subs, pays)

(* Two verified events about one subscription (one whose lifecycle is      *)
(* followed) arrive together.                                              *)
ReceiveConcurrently(e1, e2) ==
    /\ inflight = Idle
    /\ EventRef(e1) \in LifecycleRefs
    /\ EventRef(e1) = EventRef(e2)
    /\ inflight' =
         [calls |-> <<[event |-> e1, pc |-> "start", local |-> [id |-> 0]],
                      [event |-> e2, pc |-> "start", local |-> [id |-> 0]]>>,
          start |-> [subscriptions |-> subscriptions,
                     payment_history |-> payment_history,
                     now |-> now],
          steps |-> <<>>]
    /\ UNCHANGED <<subscriptions, payment_history, now, last, unacked>>

(* Call c runs its next statement. *)
ConcurrentStep(c) ==
    /\ c \in 1..Len(inflight.calls)
    /\ inflight.calls[c].pc # "done"
    /\ \E r \in HandlerStep(inflight.calls[c], now,
                            subscriptions, payment_history) :
         /\ WithinBounds(r)
         /\ subscriptions' = r.subscriptions
         /\ payment_history' = r.payment_history
         /\ inflight' = [inflight EXCEPT !.calls[c] = r.call,
                                         !.steps = Append(@, c)]
    /\ UNCHANGED <<now, last, unacked>>

(* Events about the subscription applied one at a time, before the two     *)
(* that arrive together.                                                   *)
SequentialWebhook ==
    /\ inflight = Idle
    /\ \E event \in Events :
         /\ EventRef(event) \in LifecycleRefs
         /\ handleStripeWebhook(event, TRUE, "none")

ReceivePair == \E e1, e2 \in Events : ReceiveConcurrently(e1, e2)

RunCall == \E c \in 1..2 : ConcurrentStep(c)

ConcNext ==
    \/ SequentialWebhook
    \/ ReceivePair
    \/ RunCall
    \/ Tick

ConcSpec == Init /\ [][ConcNext]_vars

----------------------------------------------------------------------------
(* The readers next to the webhook: the access gate, the entitlement and   *)
(* status queries, and a status query during which events are applied.     *)

(* Events about the followed subscription, applied while readers run. *)
ReadWebhook ==
    \E event \in Events :
      /\ EventRef(event) \in LifecycleRefs
      /\ handleStripeWebhook(event, TRUE, "none")

PremiumGate ==
    \E userId \in Users \cup {""}, fault \in {"none", "db1"} :
        RequirePremiumCall(userId, fault)

StatusQuery ==
    \E userId \in Users \cup {""}, fault \in {"none", "status", "access"} :
        GetStatusCall(userId, fault)

BeginStatusQuery == \E userId \in Users : BeginStatus(userId)

ReadNext ==
    \/ ReadWebhook
    \/ EntitlementQuery
    \/ PremiumGate
    \/ StatusQuery
    \/ Tick

ReadSpec == Init /\ [][ReadNext]_vars

(* A status query running query by query while events are applied. *)
StatusNext ==
    \/ ReadWebhook
    \/ BeginStatusQuery
    \/ StatusStep
    \/ Tick

StatusSpec == Init /\ [][StatusNext]_vars

----------------------------------------------------------------------------
(* The provider has a checkout and a cancellation of one subscription to   *)
(* deliver and delivers each at least once, in any order, with             *)
(* redeliveries and SubscriptionUpdated events in between.                 *)

ToDeliver ==
    { event \in CheckoutEvents \cup DeletedEvents :
        /\ EventRef(event) \in LifecycleRefs
        /\ event.type = "checkout.session.completed" => event.userId # "" }

OrderInit ==
    /\ subscriptions = <<>>
    /\ payment_history = <<>>
    /\ now = 0
    /\ last = NoCall
    /\ unacked = ToDeliver
    /\ inflight = Idle

(* An event already delivered is delivered again. *)
DeliverAgain ==
    \E event \in ToDeliver \ unacked :
        handleStripeWebhook(event, TRUE, "none")

(* A SubscriptionUpdated event of the subscription arrives. *)
DeliverUpdate ==
    \E event \in UpdatedEvents : handleStripeWebhook(event, TRUE, "none")

OrderNext ==
    \/ Redeliver
    \/ DeliverAgain
    \/ DeliverUpdate
    \/ Tick

OrderSpec == OrderInit /\ [][OrderNext]_vars /\ WF_vars(Redeliver)

----------------------------------------------------------------------------
(* Vocabulary of the properties. *)

(* The step is a call of handleStripeWebhook whose signature verified. *)
VerifiedWebhookStep ==
    /\ now' = now
    /\ last'.op = "handleStripeWebhook"
    /\ last'.signatureOk

(* The last call was handleStripeWebhook with a verified signature. *)
VerifiedWebhook == last.op = "handleStripeWebhook" /\ last.signatureOk

(* The payment rows carrying a payment reference. *)
RowsOfPayment(pays, ref) ==
    { i \in 1..Len(pays) : pays[i].stripe_payment_intent_id = ref }

----------------------------------------------------------------------------
(* C1 -- Terminal-state monotonicity: once a subscription record's status  *)
(* is canceled, no later SubscriptionUpdated or PaymentFailed event for    *)
(* the same externalSubscriptionRef changes its status.                    *)
C1_TerminalStateMonotonicity ==
    [][ ( /\ VerifiedWebhookStep
          /\ last'.type \in {"customer.subscription.updated",
                             "invoice.payment_failed"} )
        => \A i \in 1..Len(subscriptions) :
             ( /\ subscriptions[i].stripe_subscription_id = last'.ref
               /\ subscriptions[i].status = "canceled" )
             => subscriptions'[i].status = "canceled" ]_vars

(* C2 -- Payment uniqueness: whatever PaymentSucceeded events were         *)
(* delivered (redeliveries included), the ledger never holds two payment   *)
(* records with the same externalPaymentRef.                               *)
C2_PaymentUniqueness ==
    \A p \in PayRefs : Cardinality(RowsOfPayment(payment_history, p)) <= 1

(* C3 -- Duplicate CheckoutCompleted is a no-op: there is at most one      *)
(* subscription record per externalSubscriptionRef.                        *)
C3_OneRecordPerSubscriptionRef ==
    \A s \in SubRefs :
        Cardinality(RowsOfSubscription(subscriptions, s)) <= 1

(* Applying an event with no call failing, at time `at`. *)
Apply(event, at, subs, pays) == Dispatch(event, "none", at, subs, pays)

(* The events C4 is about. *)
MutatingEvents == UpdatedEvents \cup DeletedEvents \cup PaymentFailedEvents

(* The subscription rows with updated_at left out. *)
WithoutUpdatedAt(subs) ==
    [i \in 1..Len(subs) |-> [subs[i] EXCEPT !.updated_at = NULL]]

C5_EntitlementPurity ==
    ( last.op = "hasActiveSubscription" /\ last.caught = "none" ) =>
      LET mine == { i \in 1..Len(subscriptions) :
                      subscriptions[i].user_id = last.userId }
          recent == { i \in mine : \A j \in mine :
                        subscriptions[j].created_at
                          <= subscriptions[i].created_at }
          entitled(i) ==
              /\ subscriptions[i].status \in {"active", "trialing"}
              /\ subscriptions[i].current_period_end # NULL
              /\ subscriptions[i].current_period_end > last.at
      IN  /\ last.returned \in BOOLEAN
          /\ last.returned => \E i \in recent : entitled(i)
          /\ ~last.returned =>
               ( mine = {} \/ \E i \in recent : ~entitled(i) )

(* C5 witness: the query answered true for a user with two records, the    *)
(* older of which is not the most recently created one.                    *)
C5_Witness ==
    /\ last.op = "hasActiveSubscription"
    /\ last.caught = "none"
    /\ last.returned = TRUE
    /\ \E i, j \in 1..Len(subscriptions) :
         /\ subscriptions[i].user_id = last.userId
         /\ subscriptions[j].user_id = last.userId
         /\ subscriptions[i].created_at < subscriptions[j].created_at

(* C6 -- Storage errors are surfaced: when a database query fails while a  *)
(* verified event is applied, handleStripeWebhook does not return the      *)
(* {received: true} acknowledgement.                                       *)
C6_StorageErrorsSurfaced ==
    ( VerifiedWebhook /\ last.caught = "db" ) => last.returned # "received"

(* An event is reflected in the store: the effect of applying it shows. *)
Reflected(event) ==
    LET rows == RowsOfSubscription(subscriptions, EventRef(event))
    IN  CASE event.type = "checkout.session.completed" -> rows # {}
          [] event.type = "customer.subscription.updated" ->
               \A i \in rows :
                 /\ subscriptions[i].status = event.status
                 /\ subscriptions[i].current_period_end
                      = event.current_period_end
                 /\ subscriptions[i].cancel_at_period_end
                      = event.cancel_at_period_end
          [] event.type = "customer.subscription.deleted" ->
               \A i \in rows : subscriptions[i].status = "canceled"
          [] event.type = "invoice.payment_succeeded" ->
               rows = {} \/
                 RowsOfPayment(payment_history, event.payment_intent) # {}
          [] event.type = "invoice.payment_failed" ->
               \A i \in rows : subscriptions[i].status = "past_due"
          [] OTHER -> TRUE

(* C7 -- No event is lost to a transient storage failure: with the         *)
(* provider redelivering every unacknowledged event, every verified event  *)
(* whose apply hit a storage error is eventually reflected in the store.   *)
C7_NoEventLost ==
    \A event \in Events :
        ( VerifiedWebhook /\ last.failed = event ) ~> Reflected(event)

(* C8 -- Signature failure changes nothing: when the signature does not    *)
(* verify, handleStripeWebhook raises an error, dispatches to no event     *)
(* handler, and leaves every subscription and payment record unchanged.    *)
C8_SignatureFailureChangesNothing ==
    [][ ( /\ now' = now
          /\ last'.op = "handleStripeWebhook"
          /\ ~last'.signatureOk )
        => /\ last'.returned = "threw"
           /\ last'.handler = "none"
           /\ subscriptions' = subscriptions
           /\ payment_history' = payment_history ]_vars

(* C8 witness: a call with a bad signature was rejected while both tables  *)
(* held records.                                                           *)
C8_Witness ==
    /\ last.op = "handleStripeWebhook"
    /\ ~last.signatureOk
    /\ last.returned = "threw"
    /\ subscriptions # <<>>
    /\ payment_history # <<>>

(* C9 -- Dangling payment reference: a PaymentSucceeded event whose        *)
(* externalSubscriptionRef matches no subscription record creates no       *)
(* payment record, raises no exception, changes no subscription record,    *)
(* and the webhook is acknowledged.                                        *)
C9_DanglingPaymentReference ==
    [][ ( /\ VerifiedWebhookStep
          /\ last'.type = "invoice.payment_succeeded"
          /\ RowsOfSubscription(subscriptions, last'.ref) = {} )
        => /\ payment_history' = payment_history
           /\ subscriptions' = subscriptions
           /\ last'.returned = "received" ]_vars

(* C9 witness: such an event was acknowledged, its handler reaching the    *)
(* lookup, while another subscription had a record.                        *)
C9_Witness ==
    /\ VerifiedWebhook
    /\ last.type = "invoice.payment_succeeded"
    /\ last.caught = "none"
    /\ last.returned = "received"
    /\ RowsOfSubscription(subscriptions, last.ref) = {}
    /\ subscriptions # <<>>

(* The event types handleStripeWebhook handles. *)
HandledTypes ==
    {"checkout.session.completed", "customer.subscription.updated",
     "customer.subscription.deleted", "invoice.payment_succeeded",
     "invoice.payment_failed"}

(* C10 -- Unknown event types are acknowledged no-ops: a verified webhook  *)
(* whose event type is none of the five handled types leaves all           *)
(* subscription and payment records unchanged and is acknowledged with     *)
(* {received: true}.                                                       *)
C10_UnknownEventTypeIsNoOp ==
    [][ ( VerifiedWebhookStep /\ last'.type \notin HandledTypes )
        => /\ subscriptions' = subscriptions
           /\ payment_history' = payment_history
           /\ last'.returned = "received" ]_vars

(* C10 witness: an unhandled event type was acknowledged while both tables *)
(* held records.                                                           *)
C10_Witness ==
    /\ VerifiedWebhook
    /\ last.type \notin HandledTypes
    /\ last.returned = "received"
    /\ subscriptions # <<>>
    /\ payment_history # <<>>

(* The step is a call of a router command. *)
CommandStep == now' = now /\ last'.op \in Commands

(* The entitlement fields of a subscription row. *)
EntitlementFields(row) ==
    <<row.status, row.current_period_start, row.current_period_end,
      row.cancel_at_period_end, row.trial_end>>

(* C11 -- Canceled records are frozen: once a subscription record has      *)
(* status canceled, no operation (any webhook event, or the cancel and     *)
(* reactivate commands) changes any of its fields status,                  *)
(* currentPeriodStart, currentPeriodEnd, cancelAtPeriodEnd or trialEnd.    *)
C11_CanceledRecordsFrozen ==
    [][ \A i \in 1..Len(subscriptions) :
          subscriptions[i].status = "canceled"
          => /\ i <= Len(subscriptions')
             /\ EntitlementFields(subscriptions'[i])
                  = EntitlementFields(subscriptions[i]) ]_vars

(* C12 (as stated) -- Only the Reconciler writes subscription records:     *)
(* createCheckout, createPortal, cancel and reactivate leave every field   *)
(* of every subscription record unchanged.                                 *)
C12_OnlyReconcilerWrites ==
    [][ CommandStep => subscriptions' = subscriptions ]_vars

(* C12 (amended) -- createCheckout and createPortal leave every field of   *)
(* every subscription record unchanged; cancel and reactivate change only  *)
(* cancelAtPeriodEnd (to true, to false) and updatedAt, and only of the    *)
(* records of the subscription they address, and only when they succeed;   *)
(* every other field changes only as the effect of a webhook event.        *)
C12_CommandsWriteOnlyTheMirror ==
    [][ /\ ( CommandStep /\ ( \/ last'.op \in {"createCheckout", "createPortal"}
                              \/ last'.returned # "success" ) )
           => subscriptions' = subscriptions
        /\ ( CommandStep /\ last'.op \in {"cancel", "reactivate"} )
           => /\ Len(subscriptions') = Len(subscriptions)
              /\ \A i \in 1..Len(subscriptions) :
                   IF /\ subscriptions[i].stripe_subscription_id = last'.ref
                      /\ last'.returned = "success"
                   THEN subscriptions'[i] =
                          [subscriptions[i] EXCEPT
                             !.cancel_at_period_end = (last'.op = "cancel"),
                             !.updated_at = now]
                   ELSE subscriptions'[i] = subscriptions[i]
        /\ ( \E i \in 1..Len(subscriptions) :
               \/ i > Len(subscriptions')
               \/ [subscriptions'[i] EXCEPT !.cancel_at_period_end = FALSE,
                                            !.updated_at = NULL]
                    # [subscriptions[i] EXCEPT !.cancel_at_period_end = FALSE,
                                               !.updated_at = NULL] )
           => VerifiedWebhookStep ]_vars

(* C12 witness: cancel succeeded some time after the record was created    *)
(* and the record carries its mirror write.                                *)
C12_Witness ==
    /\ last.op = "cancel"
    /\ last.returned = "success"
    /\ \E i \in RowsOfSubscription(subscriptions, last.ref) :
         /\ subscriptions[i].cancel_at_period_end
         /\ subscriptions[i].created_at < subscriptions[i].updated_at

(* C13 -- Records are created only by checkout completion: the number of   *)
(* subscription records grows only when a CheckoutCompleted event is       *)
(* applied; createCheckout, createPortal, cancel, reactivate and the other *)
(* four event kinds never create a subscription record.                    *)
C13_CreatedOnlyByCheckout ==
    [][ Len(subscriptions') > Len(subscriptions)
        => /\ VerifiedWebhookStep
           /\ last'.type = "checkout.session.completed" ]_vars

(* C13 witness: a SubscriptionUpdated event for a subscription without a   *)
(* record was applied, while another subscription had one.                 *)
C13_Witness ==
    /\ VerifiedWebhook
    /\ last.type = "customer.subscription.updated"
    /\ last.caught = "none"
    /\ RowsOfSubscription(subscriptions, last.ref) = {}
    /\ subscriptions # <<>>

(* C14 -- Join-key stability: once a subscription record exists, its       *)
(* externalSubscriptionRef and its userId keep the values given at         *)
(* creation through every later webhook event and command.                 *)
C14_JoinKeyStability ==
    [][ \A i \in 1..Len(subscriptions) :
          i <= Len(subscriptions') =>
            /\ subscriptions'[i].stripe_subscription_id
                 = subscriptions[i].stripe_subscription_id
            /\ subscriptions'[i].user_id = subscriptions[i].user_id ]_vars

(* C14 witness: a record that was canceled by an event and then addressed  *)
(* by reactivate still carries its subscription reference and user.        *)
C14_Witness ==
    /\ last.op = "reactivate"
    /\ last.returned = "success"
    /\ \E i \in RowsOfSubscription(subscriptions, last.ref) :
         /\ subscriptions[i].status = "canceled"
         /\ subscriptions[i].user_id = last.userId

(* C15 -- No hard delete: no webhook event and no command ever removes a   *)
(* subscription record; SubscriptionCanceled keeps the record and sets its *)
(* status to canceled (and its updatedAt), nothing else.                   *)
C15_NoHardDelete ==
    [][ /\ Len(subscriptions') >= Len(subscriptions)
        /\ ( /\ VerifiedWebhookStep
             /\ last'.type = "customer.subscription.deleted"
             /\ last'.caught = "none" )
           => \A i \in 1..Len(subscriptions) :
                subscriptions'[i] =
                  IF subscriptions[i].stripe_subscription_id = last'.ref
                  THEN [subscriptions[i] EXCEPT !.status = "canceled",
                                                !.updated_at = now]
                  ELSE subscriptions[i] ]_vars

(* C15 witness: a SubscriptionCanceled event was applied to a record that  *)
(* has a payment, and the record is there with status canceled.            *)
C15_Witness ==
    /\ VerifiedWebhook
    /\ last.type = "customer.subscription.deleted"
    /\ last.caught = "none"
    /\ \E i \in RowsOfSubscription(subscriptions, last.ref) :
         /\ subscriptions[i].status = "canceled"
         /\ \E k \in 1..Len(payment_history) :
              payment_history[k].subscription_id = i

(* C16 -- Append-only payment ledger: payment records are created only by  *)
(* applying a PaymentSucceeded event, and once created a payment record is *)
(* never modified or removed by any later event or command.                *)
C16_AppendOnlyLedger ==
    [][ /\ Len(payment_history') >= Len(payment_history)
        /\ \A k \in 1..Len(payment_history) :
             payment_history'[k] = payment_history[k]
        /\ Len(payment_history') > Len(payment_history)
           => /\ VerifiedWebhookStep
              /\ last'.type = "invoice.payment_succeeded" ]_vars

(* C16 witness: a PaymentFailed event was applied to a record that has a   *)
(* succeeded payment in the ledger.                                        *)
C16_Witness ==
    /\ VerifiedWebhook
    /\ last.type = "invoice.payment_failed"
    /\ last.caught = "none"
    /\ \E i \in RowsOfSubscription(subscriptions, last.ref) :
         /\ subscriptions[i].status = "past_due"
         /\ \E k \in 1..Len(payment_history) :
              /\ payment_history[k].subscription_id = i
              /\ payment_history[k].status = "succeeded"

(* The tables two events leave when applied one after the other, e1 then   *)
(* e2, at some times between the start and now.                            *)
OneAfterTheOther(e1, e2, start, until) ==
    UNION {
      UNION {
        UNION {
          { <<o2.subscriptions, o2.payment_history>> :
              o2 \in Apply(e2, t2, o1.subscriptions, o1.payment_history) } :
          t2 \in t1..until } :
        o1 \in Apply(e1, t1, start.subscriptions, start.payment_history) } :
      t1 \in start.now..until }

(* Both concurrent calls have returned. *)
BothDone ==
    /\ Len(inflight.calls) = 2
    /\ \A c \in 1..2 : inflight.calls[c].pc = "done"

(* C17 -- Serialized applies: when two webhook events targeting the same   *)
(* externalSubscriptionRef are processed concurrently, with their reads    *)
(* and writes interleaved in any way, the final subscription and payment   *)
(* records equal those produced by applying the two events one after the   *)
(* other in some order.                                                    *)
C17_SerializedApplies ==
    BothDone =>
      LET e1 == inflight.calls[1].event
          e2 == inflight.calls[2].event
      IN  <<subscriptions, payment_history>> \in
            OneAfterTheOther(e1, e2, inflight.start, now)
              \cup OneAfterTheOther(e2, e1, inflight.start, now)

(* C17 witness: a PaymentSucceeded call selected the owning row, a         *)
(* SubscriptionCanceled call ran to its end, and then the first call       *)
(* inserted its payment.                                                   *)
C17_Witness ==
    /\ BothDone
    /\ inflight.calls[1].event.type = "invoice.payment_succeeded"
    /\ inflight.calls[2].event.type = "customer.subscription.deleted"
    /\ inflight.steps = <<1, 2, 1>>
    /\ payment_history # inflight.start.payment_history
    /\ subscriptions # inflight.start.subscriptions

(* C18 -- All-or-nothing per event: if applying a webhook event fails at   *)
(* any persistence step, the subscription and payment records are exactly  *)
(* as they were before the event was delivered.                            *)
C18_AllOrNothing ==
    [][ ( VerifiedWebhookStep /\ last'.caught = "db" )
        => /\ subscriptions' = subscriptions
           /\ payment_history' = payment_history ]_vars

(* C18 witness: a PaymentSucceeded event for a subscription that has a     *)
(* record failed at a query, with a payment already in the ledger.         *)
C18_Witness ==
    /\ VerifiedWebhook
    /\ last.type = "invoice.payment_succeeded"
    /\ last.caught = "db"
    /\ RowsOfSubscription(subscriptions, last.ref) # {}
    /\ payment_history # <<>>

(* The user has a subscription record with a provider subscription         *)
(* reference, with a provider customer reference.                          *)
HasSubscriptionRef(userId) ==
    \E i \in 1..Len(subscriptions) :
      /\ subscriptions[i].user_id = userId
      /\ subscriptions[i].stripe_subscription_id # ""

HasCustomerRef(userId) ==
    \E i \in 1..Len(subscriptions) :
      /\ subscriptions[i].user_id = userId
      /\ subscriptions[i].stripe_customer_id # ""

(* C19 -- Command Surface NOT_FOUND: cancel(userId) and reactivate(userId) *)
(* for an authenticated user who has no subscription record with a         *)
(* provider subscription reference, and createPortal(userId) for a user    *)
(* with no provider customer reference, fail with NOT_FOUND and make no    *)
(* provider call and no store write; otherwise cancel and reactivate       *)
(* return success.                                                         *)
C19_CommandNotFound ==
    [][ ( CommandStep /\ last'.userId # "" )
        => /\ last'.op \in {"cancel", "reactivate"}
              => IF HasSubscriptionRef(last'.userId)
                 THEN last'.returned = "success"
                 ELSE /\ last'.returned = "NOT_FOUND"
                      /\ ~last'.providerCall
                      /\ subscriptions' = subscriptions
           /\ ( last'.op = "createPortal" /\ ~HasCustomerRef(last'.userId) )
              => /\ last'.returned = "NOT_FOUND"
                 /\ ~last'.providerCall
                 /\ subscriptions' = subscriptions ]_vars

(* The row a CheckoutCompleted event is to create at time `at`: the        *)
(* session's user, customer and subscription, and the status, period and   *)
(* trial end the provider reports for the subscription.                    *)
RecordOfCheckout(event, at) ==
    LET reported == RetrievedSubscription[event.subscription]
    IN  [user_id |-> event.userId,
         plan_id |-> 1,
         stripe_customer_id |-> event.customer,
         stripe_subscription_id |-> event.subscription,
         status |-> reported.status,
         current_period_start |-> reported.current_period_start,
         current_period_end |-> reported.current_period_end,
         cancel_at_period_end |-> FALSE,
         trial_end |-> reported.trial_end,
         created_at |-> at,
         updated_at |-> at]

Entitlement(subs, userId, at) == hasActiveSubscription(subs, userId, at, "none")

(* The user has records and the most recently created ones are past_due. *)
LatestPastDue(subs, userId) ==
    /\ LatestRows(subs, userId) # {}
    /\ \A i \in LatestRows(subs, userId) : subs[i].status = "past_due"

C22_FullSnapshotOverwrite ==
    \A event \in UpdatedEvents :
      \A o \in Apply(event, now, subscriptions, payment_history) :
        /\ Len(o.subscriptions) = Len(subscriptions)
        /\ \A i \in 1..Len(subscriptions) :
             ( /\ subscriptions[i].stripe_subscription_id = event.id
               /\ subscriptions[i].status # "canceled" )
             => LET row == o.subscriptions[i]
                IN  /\ row.status = event.status
                    /\ row.current_period_start = event.current_period_start
                    /\ row.current_period_end = event.current_period_end
                    /\ row.cancel_at_period_end = event.cancel_at_period_end
                    /\ row.user_id = subscriptions[i].user_id
                    /\ row.plan_id = subscriptions[i].plan_id
                    /\ row.stripe_customer_id
                         = subscriptions[i].stripe_customer_id
                    /\ row.stripe_subscription_id
                         = subscriptions[i].stripe_subscription_id
                    /\ row.trial_end = subscriptions[i].trial_end

(* C22 witness: a record that is past_due and carries the                  *)
(* cancelAtPeriodEnd = true written by the cancel command, which every     *)
(* SubscriptionUpdated event has to overwrite.                             *)
C22_Witness ==
    /\ last.op = "cancel"
    /\ last.returned = "success"
    /\ last.ref \in { event.id : event \in UpdatedEvents }
    /\ \E i \in RowsOfSubscription(subscriptions, last.ref) :
         /\ subscriptions[i].cancel_at_period_end
         /\ subscriptions[i].status = "past_due"
         /\ subscriptions[i].trial_end # NULL

(* C24 -- updatedAt is monotone: for every subscription record, over any   *)
(* sequence of webhook events and cancel/reactivate commands, updatedAt    *)
(* never decreases, and every operation that changes a field of the record *)
(* sets updatedAt to the time of that operation.                           *)
C24_UpdatedAtMonotone ==
    [][ \A i \in 1..Len(subscriptions) :
          i <= Len(subscriptions') =>
            /\ subscriptions'[i].updated_at >= subscriptions[i].updated_at
            /\ subscriptions'[i] # subscriptions[i]
               => subscriptions'[i].updated_at = now ]_vars

(* C24 witness: a SubscriptionUpdated event changed a record some time     *)
(* after it was created.                                                   *)
C24_Witness ==
    /\ VerifiedWebhook
    /\ last.type = "customer.subscription.updated"
    /\ last.caught = "none"
    /\ \E i \in RowsOfSubscription(subscriptions, last.ref) :
         /\ subscriptions[i].status = "active"
         /\ subscriptions[i].created_at < now
         /\ subscriptions[i].updated_at = now

(* C26 -- Commands do not touch entitlement: a successful cancel or        *)
(* reactivate changes only cancelAtPeriodEnd (to true, respectively false) *)
(* and updatedAt on the records with the user's externalSubscriptionRef;   *)
(* status and period bounds are unchanged, so hasActiveSubscription(userId)*)
(* has the same value immediately before and after the command.            *)
C26_CommandsKeepEntitlement ==
    [][ ( /\ CommandStep
          /\ last'.op \in {"cancel", "reactivate"}
          /\ last'.returned = "success" )
        => /\ Len(subscriptions') = Len(subscriptions)
           /\ \A i \in 1..Len(subscriptions) :
                /\ subscriptions'[i].status = subscriptions[i].status
                /\ subscriptions'[i].current_period_start
                     = subscriptions[i].current_period_start
                /\ subscriptions'[i].current_period_end
                     = subscriptions[i].current_period_end
                /\ subscriptions[i].stripe_subscription_id = last'.ref
                   => subscriptions'[i].cancel_at_period_end
                        = (last'.op = "cancel")
                /\ subscriptions[i].stripe_subscription_id # last'.ref
                   => subscriptions'[i] = subscriptions[i]
           /\ Entitlement(subscriptions', last'.userId, now)
                = Entitlement(subscriptions, last'.userId, now) ]_vars

(* C26 witness: reactivate succeeded for a user whose record is entitled   *)
(* and had been marked by cancel before.                                   *)
C26_Witness ==
    /\ last.op = "reactivate"
    /\ last.returned = "success"
    /\ Entitlement(subscriptions, last.userId, now) = {TRUE}
    /\ \E i \in RowsOfSubscription(subscriptions, last.ref) :
         /\ ~subscriptions[i].cancel_at_period_end
         /\ subscriptions[i].created_at < subscriptions[i].updated_at

(* C27 -- PaymentSucceeded does not change subscription state: applying a  *)
(* PaymentSucceeded event leaves every field of every subscription record  *)
(* unchanged; a subscription put into past_due by PaymentFailed stays      *)
(* past_due (and its user un-entitled) after a later PaymentSucceeded.     *)
C27_PaymentSucceededKeepsSubscriptions ==
    [][ ( VerifiedWebhookStep /\ last'.type = "invoice.payment_succeeded" )
        => /\ subscriptions' = subscriptions
           /\ \A userId \in Users :
                LatestPastDue(subscriptions, userId)
                => /\ LatestPastDue(subscriptions', userId)
                   /\ Entitlement(subscriptions', userId, now) = {FALSE}
      ]_vars

(* C27 witness: a PaymentSucceeded event entered a payment for a record    *)
(* that is past_due with its period still running.                         *)
C27_Witness ==
    /\ VerifiedWebhook
    /\ last.type = "invoice.payment_succeeded"
    /\ last.caught = "none"
    /\ \E i \in RowsOfSubscription(subscriptions, last.ref) :
         /\ subscriptions[i].status = "past_due"
         /\ subscriptions[i].current_period_end > now
         /\ \E k \in 1..Len(payment_history) :
              payment_history[k].subscription_id = i

(* C28 -- Events for unknown subscriptions are inert: a                    *)
(* SubscriptionUpdated, SubscriptionCanceled or PaymentFailed event whose  *)
(* externalSubscriptionRef matches no existing record creates no record,   *)
(* changes no record of any other externalSubscriptionRef, and is          *)
(* acknowledged without error.                                             *)
C28_UnknownSubscriptionInert ==
    [][ ( /\ VerifiedWebhookStep
          /\ last'.type \in {"customer.subscription.updated",
                             "customer.subscription.deleted",
                             "invoice.payment_failed"}
          /\ RowsOfSubscription(subscriptions, last'.ref) = {} )
        => /\ subscriptions' = subscriptions
           /\ payment_history' = payment_history
           /\ last'.returned = "received" ]_vars

(* C28 witness: a SubscriptionCanceled event for a subscription without a  *)
(* record was acknowledged while another subscription had a record and a   *)
(* payment.                                                                *)
C28_Witness ==
    /\ VerifiedWebhook
    /\ last.type = "customer.subscription.deleted"
    /\ last.caught = "none"
    /\ last.returned = "received"
    /\ RowsOfSubscription(subscriptions, last.ref) = {}
    /\ subscriptions # <<>>
    /\ payment_history # <<>>

(* The step is a call of the given reader. *)
ReadStep(op) == now' = now /\ last'.op = op /\ last' # last

(* C23 -- Access gate: requirePremium(db, userId) returns the userId       *)
(* exactly when userId is present and hasActiveSubscription(userId) is     *)
(* true; with a missing userId it fails UNAUTHORIZED without reading the   *)
(* store, and with a present userId that has no entitlement it fails       *)
(* FORBIDDEN.  It never writes to the store.                               *)
C23_AccessGate ==
    [][ ReadStep("requirePremium")
        => /\ subscriptions' = subscriptions
           /\ payment_history' = payment_history
           /\ IF last'.userId = ""
              THEN /\ last'.returned = "UNAUTHORIZED"
                   /\ ~last'.storeRead
              ELSE LET answers ==
                         hasActiveSubscription(subscriptions, last'.userId,
                           now, IF last'.caught = "db" THEN "db1" ELSE "none")
                   IN  \/ /\ last'.returned = last'.userId
                          /\ TRUE \in answers
                       \/ /\ last'.returned = "FORBIDDEN"
                          /\ FALSE \in answers ]_vars

(* C23 witness: the gate let a user with an entitled record through. *)
C23_Witness ==
    /\ last.op = "requirePremium"
    /\ last.userId # ""
    /\ last.returned = last.userId
    /\ \E i \in 1..Len(subscriptions) :
         /\ subscriptions[i].user_id = last.userId
         /\ IsEntitled(subscriptions[i], last.at)

(* A getSubscriptionStatus call that ran query by query has returned. *)
StatusReturned ==
    /\ Len(inflight.calls) = 1
    /\ inflight.calls[1].event.type = "getSubscriptionStatus"
    /\ inflight.calls[1].pc = "done"

(* C25 -- Status view consistency under concurrent writes: the view        *)
(* returned by getSubscriptionStatus(userId) always satisfies hasAccess =  *)
(* (status in {active, trialing} and currentPeriodEnd > now) for the       *)
(* status and currentPeriodEnd it returns, even when a webhook event for   *)
(* the same user's subscription is applied while it is running.            *)
C25_StatusViewConsistent ==
    StatusReturned =>
      LET view == inflight.calls[1].local
      IN  view.hasAccess =
            ( /\ view.status \in {"active", "trialing"}
              /\ view.currentPeriodEnd # NULL
              /\ view.currentPeriodEnd > view.at )

(* C30 -- Entitlement queries fail closed: when the store read fails,      *)
(* hasActiveSubscription returns false and getSubscriptionStatus returns a *)
(* view with status 'error' and hasAccess false (hasAccess false when the  *)
(* read that fails is the one of the hasActiveSubscription it calls),      *)
(* neither raising an exception nor writing to the store; for a user with  *)
(* no record getSubscriptionStatus returns status 'none' and hasAccess     *)
(* false.                                                                  *)
C30_QueriesFailClosed ==
    [][ /\ ReadStep("hasActiveSubscription")
           => /\ subscriptions' = subscriptions
              /\ payment_history' = payment_history
              /\ last'.returned \in BOOLEAN
              /\ last'.caught = "db" => last'.returned = FALSE
        /\ ( ReadStep("getStatus") /\ last'.userId # "" )
           => /\ subscriptions' = subscriptions
              /\ payment_history' = payment_history
              /\ last'.returned = "view"
              /\ last'.caught = "status"
                 => /\ last'.view.status = "error"
                    /\ ~last'.view.hasAccess
              /\ last'.caught = "access" => ~last'.view.hasAccess
              /\ ( /\ last'.caught # "status"
                   /\ \A i \in 1..Len(subscriptions) :
                        subscriptions[i].user_id # last'.userId )
                 => /\ last'.view.status = "none"
                    /\ ~last'.view.hasAccess ]_vars

(* C30 witness: the status query met a failing read for a user whose       *)
(* record is entitled, and answered with status 'error' and no access.     *)
C30_Witness ==
    /\ last.op = "getStatus"
    /\ last.caught = "status"
    /\ last.view.status = "error"
    /\ \E i \in 1..Len(subscriptions) :
         /\ subscriptions[i].user_id = last.userId
         /\ IsEntitled(subscriptions[i], last.at)

(* The subscription has a record and every record of it is canceled. *)
Canceled(ref) ==
    /\ RowsOfSubscription(subscriptions, ref) # {}
    /\ \A i \in RowsOfSubscription(subscriptions, ref) :
         subscriptions[i].status = "canceled"

(* C29 -- Cancellation wins regardless of delivery order: for a            *)
(* subscription for which the provider delivers both CheckoutCompleted and *)
(* SubscriptionCanceled, each at least once and in any order, possibly     *)
(* interleaved with SubscriptionUpdated events, the record eventually has  *)
(* status canceled and keeps it forever after.                             *)
C29_CancellationWins ==
    \A ref \in LifecycleRefs : <>[]Canceled(ref)

====
